---------------------------- MODULE Spec2Model ----------------------------
(***************************************************************************)
(* A model of coinmon (src/index.js, src/validation.js): one run of the    *)
(* command-line program, from argument parsing to the printed table.       *)
(*                                                                         *)
(* Strings are sequences of one-character strings, so that toLowerCase,    *)
(* toUpperCase, split and template concatenation are computed character by *)
(* character.  JavaScript values are records [t, n, s]: t is the type tag, *)
(* n the value of a number or boolean, s the characters of a string.       *)
(***************************************************************************)
EXTENDS Integers, Sequences, FiniteSets, TLC

(***************************************************************************)
(* Bounds of the model.                                                    *)
(***************************************************************************)
\* longest response.data array drawn
MaxRecords == 3
\* most entries in a --find list
MaxFind == 2
\* most entries in a --specific list
MaxSpecific == 2

(***************************************************************************)
(* Program constants.                                                      *)
(***************************************************************************)
\* src/index.js:23  default of --top
DefaultTop == 10
\* src/index.js:26  default of --rank
DefaultRank == 0
\* src/index.js:36  limit requested when filtering by symbol or portfolio
FilterLimit == 1500

(***************************************************************************)
(* JavaScript values.                                                      *)
(***************************************************************************)
Undefined == [t |-> "undefined", n |-> 0, s |-> <<>>]
Null      == [t |-> "null", n |-> 0, s |-> <<>>]
NaN       == [t |-> "NaN", n |-> 0, s |-> <<>>]
True      == [t |-> "boolean", n |-> 1, s |-> <<>>]
Num(k)    == [t |-> "number", n |-> k, s |-> <<>>]
Str(cs)   == [t |-> "string", n |-> 0, s |-> cs]

\* ToBoolean: undefined, null, NaN, 0 and "" are falsy
Truthy(v) ==
  CASE v.t = "number"  -> v.n # 0
    [] v.t = "string"  -> v.s # <<>>
    [] v.t = "boolean" -> v.n = 1
    [] OTHER           -> FALSE

\* a && b  and  a || b
And(a, b) == IF Truthy(a) THEN b ELSE a
Or(a, b)  == IF Truthy(a) THEN a ELSE b

Digits == <<"0", "1", "2", "3", "4", "5", "6", "7", "8", "9">>
DigitValues == [c \in {Digits[i] : i \in 1..10} |-> (CHOOSE i \in 1..10 : Digits[i] = c) - 1]
IsDigit(c) == c \in DOMAIN DigitValues
DigitVal(c) == DigitValues[c]

RECURSIVE DigitsToNat(_)
DigitsToNat(cs) ==
  IF cs = <<>> THEN 0
  ELSE 10 * DigitsToNat(SubSeq(cs, 1, Len(cs) - 1)) + DigitVal(cs[Len(cs)])

AllDigits(cs) == cs # <<>> /\ \A i \in 1..Len(cs) : IsDigit(cs[i])

\* StringToNumber on the integer literals the model draws: "" is 0, an
\* optionally signed run of digits is its value, anything else is NaN
StrToNumber(cs) ==
  IF cs = <<>> THEN Num(0)
  ELSE IF AllDigits(cs) THEN Num(DigitsToNat(cs))
  ELSE IF cs[1] = "-" /\ AllDigits(Tail(cs)) THEN Num(0 - DigitsToNat(Tail(cs)))
  ELSE IF cs[1] = "+" /\ AllDigits(Tail(cs)) THEN Num(DigitsToNat(Tail(cs)))
  ELSE NaN

\* ToNumber, the unary + of the source
ToNumber(v) ==
  CASE v.t = "number"  -> v
    [] v.t = "null"    -> Num(0)
    [] v.t = "boolean" -> Num(v.n)
    [] v.t = "string"  -> StrToNumber(v.s)
    [] OTHER           -> NaN

\* the global isNaN(value): ToNumber first
IsNaN(v) == ToNumber(v) = NaN

\* parseFloat on the same literals and on what toFixed(2) makes of them:
\* the empty string has no number in it
ParseFloat(v) ==
  CASE v.t = "number" -> v
    [] v.t = "string" ->
         IF v.s = <<>> THEN NaN
         ELSE IF Len(v.s) > 3 /\ SubSeq(v.s, Len(v.s) - 2, Len(v.s)) = <<".", "0", "0">>
              THEN StrToNumber(SubSeq(v.s, 1, Len(v.s) - 3))
              ELSE StrToNumber(v.s)
    [] OTHER          -> NaN

\* a * b and a - b on JavaScript values
Mul(a, b) ==
  LET x == ToNumber(a)  y == ToNumber(b)
  IN  IF x = NaN \/ y = NaN THEN NaN ELSE Num(x.n * y.n)
Sub(a, b) ==
  LET x == ToNumber(a)  y == ToNumber(b)
  IN  IF x = NaN \/ y = NaN THEN NaN ELSE Num(x.n - y.n)
Add(a, b) ==
  LET x == ToNumber(a)  y == ToNumber(b)
  IN  IF x = NaN \/ y = NaN THEN NaN ELSE Num(x.n + y.n)

RECURSIVE NatToDigits(_)
NatToDigits(k) ==
  IF k < 10 THEN <<Digits[k + 1]>>
  ELSE NatToDigits(k \div 10) \o <<Digits[(k % 10) + 1]>>

\* Number::toString of an integer
IntToString(k) == IF k < 0 THEN <<"-">> \o NatToDigits(0 - k) ELSE NatToDigits(k)

T_NaN == <<"N", "a", "N">>
T_NA == <<"N", "A">>

\* ToString of the values that reach a template or a default sort
JSToString(v) ==
  CASE v.t = "number" -> IntToString(v.n)
    [] v.t = "string" -> v.s
    [] v.t = "NaN"    -> T_NaN
    [] OTHER          -> <<"u", "n", "d", "e", "f", "i", "n", "e", "d">>

\* Number.prototype.toFixed(2) of an integer or NaN
ToFixed2(v) ==
  IF v.t = "number" THEN IntToString(v.n) \o <<".", "0", "0">> ELSE T_NaN

(***************************************************************************)
(* Strings.                                                                *)
(***************************************************************************)
UpperLetters == <<"A", "B", "C", "D", "E", "F", "G", "H", "I", "J", "K", "L", "M",
                  "N", "O", "P", "Q", "R", "S", "T", "U", "V", "W", "X", "Y", "Z">>
LowerLetters == <<"a", "b", "c", "d", "e", "f", "g", "h", "i", "j", "k", "l", "m",
                  "n", "o", "p", "q", "r", "s", "t", "u", "v", "w", "x", "y", "z">>

LowerOf == [c \in {UpperLetters[i] : i \in 1..26} |->
              LowerLetters[CHOOSE i \in 1..26 : UpperLetters[i] = c]]
UpperOf == [c \in {LowerLetters[i] : i \in 1..26} |->
              UpperLetters[CHOOSE i \in 1..26 : LowerLetters[i] = c]]
\* a letter's other case; any other character is left as it is
LowerChar(c) == IF c \in DOMAIN LowerOf THEN LowerOf[c] ELSE c
UpperChar(c) == IF c \in DOMAIN UpperOf THEN UpperOf[c] ELSE c

\* String.prototype.toLowerCase / toUpperCase
toLowerCase(cs) == [i \in 1..Len(cs) |-> LowerChar(cs[i])]
toUpperCase(cs) == [i \in 1..Len(cs) |-> UpperChar(cs[i])]

\* String.prototype.split(','): the pieces between commas, empty ones kept
RECURSIVE Split(_, _)
Split(cs, cur) ==
  IF cs = <<>> THEN <<cur>>
  ELSE IF cs[1] = "," THEN <<cur>> \o Split(Tail(cs), <<>>)
  ELSE Split(Tail(cs), Append(cur, cs[1]))

\* the text a shell user types for a comma separated list
RECURSIVE Join(_)
Join(l) ==
  IF l = <<>> THEN <<>>
  ELSE IF Len(l) = 1 THEN l[1]
  ELSE l[1] \o <<",">> \o Join(Tail(l))

\* colors: text.green, text.red, text.yellow wrap the text in escape codes
Green(cs)  == <<"ESC[32m">> \o cs \o <<"ESC[39m">>
Red(cs)    == <<"ESC[31m">> \o cs \o <<"ESC[39m">>
Yellow(cs) == <<"ESC[33m">> \o cs \o <<"ESC[39m">>

(***************************************************************************)
(* Helper functions of index.js.                                           *)
(***************************************************************************)
\* const list = value => value && value.split(',') || []
\* (value is the option's text; the empty text is falsy)
list(value) == IF value # <<>> THEN Split(value, <<>>) ELSE <<>>

\* getColoredChangeValueText
getColoredChangeValueText(value) ==
  LET text == JSToString(value) \o <<"%">>
      num  == ToNumber(value)
  IN  IF Truthy(value)
      THEN Str(IF num.t = "number" /\ num.n > 0 THEN Green(text) ELSE Red(text))
      ELSE Str(T_NA)

\* humanize.compactInteger(n, 3) for |n| < 1000: the sign and the digits
compactInteger(v) == IntToString(v.n)

\* const displayedMarketCap = marketCap && humanize.compactInteger(marketCap, 3) || 'NA'
displayedMarketCap(marketCap) ==
  IF Truthy(marketCap) THEN Str(compactInteger(marketCap)) ELSE Str(T_NA)


(***************************************************************************)
(* validation.js.                                                          *)
(***************************************************************************)
\* validateNumber: [exit |-> process.exit() was called, value |-> +value]
validateNumber(value) ==
  LET num == ToNumber(Str(value))
  IN  [exit  |-> IsNaN(Str(value)) /\ (num.t = "number" /\ num.n >= 0),
       value |-> num]

availableCurrencies ==
  <<
    <<"U", "S", "D">>, <<"A", "U", "D">>, <<"B", "R", "L">>,
    <<"C", "A", "D">>, <<"C", "H", "F">>, <<"C", "L", "P">>,
    <<"C", "N", "Y">>, <<"C", "Z", "K">>, <<"D", "K", "K">>,
    <<"E", "U", "R">>, <<"G", "B", "P">>, <<"H", "K", "D">>,
    <<"H", "U", "F">>, <<"I", "D", "R">>, <<"I", "L", "S">>,
    <<"I", "N", "R">>, <<"J", "P", "Y">>, <<"K", "R", "W">>,
    <<"M", "X", "N">>, <<"M", "Y", "R">>, <<"N", "O", "K">>,
    <<"N", "Z", "D">>, <<"P", "H", "P">>, <<"P", "K", "R">>,
    <<"P", "L", "N">>, <<"R", "U", "B">>, <<"S", "E", "K">>,
    <<"S", "G", "D">>, <<"T", "H", "B">>, <<"T", "R", "Y">>,
    <<"T", "W", "D">>, <<"Z", "A", "R">>, <<"B", "T", "C">>
  >>

InList(l, x) == \E i \in 1..Len(l) : l[i] = x

\* validateConvertCurrency: [exit |-> process.exit() was called, value |-> convert]
validateConvertCurrency(value) ==
  LET convert0 == toUpperCase(value)
  IN  [exit |-> ~InList(availableCurrencies, convert0), value |-> convert0]

(***************************************************************************)
(* Property names and titles of index.js.                                  *)
(***************************************************************************)
K_name ==
  <<"n", "a", "m", "e">>
K_symbol ==
  <<"s", "y", "m", "b", "o", "l">>
K_rank ==
  <<"r", "a", "n", "k">>
K_available_supply ==
  <<"a", "v", "a", "i", "l", "a", "b", "l", "e", "_", "s", "u", "p", "p", "l", "y">>
K_total_supply ==
  <<"t", "o", "t", "a", "l", "_", "s", "u", "p", "p", "l", "y">>
K_max_supply ==
  <<"m", "a", "x", "_", "s", "u", "p", "p", "l", "y">>
K_percent_change_1h ==
  <<"p", "e", "r", "c", "e", "n", "t", "_", "c", "h", "a", "n", "g", "e", "_", "1", "h">>
K_percent_change_24h ==
  <<"p", "e", "r", "c", "e", "n", "t", "_", "c", "h", "a", "n", "g", "e", "_", "2", "4", "h">>
K_percent_change_7d ==
  <<"p", "e", "r", "c", "e", "n", "t", "_", "c", "h", "a", "n", "g", "e", "_", "7", "d">>
K_last_updated ==
  <<"l", "a", "s", "t", "_", "u", "p", "d", "a", "t", "e", "d">>
K_portfolio_balance ==
  <<"p", "o", "r", "t", "f", "o", "l", "i", "o", "_", "b", "a", "l", "a", "n", "c", "e">>
K_portfolio_estimated_value ==
  <<"p", "o", "r", "t", "f", "o", "l", "i", "o", "_", "e", "s", "t", "i", "m", "a", "t", "e", "d", "_", "v", "a", "l", "u", "e">>
T_price_ ==
  <<"p", "r", "i", "c", "e", "_">>
T_market_cap_ ==
  <<"m", "a", "r", "k", "e", "t", "_", "c", "a", "p", "_">>
T_24h_volume_ ==
  <<"2", "4", "h", "_", "v", "o", "l", "u", "m", "e", "_">>
T_Rank ==
  <<"R", "a", "n", "k">>
T_Coin ==
  <<"C", "o", "i", "n">>
T_Price_ ==
  <<"P", "r", "i", "c", "e", " ">>
T_Change_1H ==
  <<"C", "h", "a", "n", "g", "e", " ", "1", "H">>
T_Change_24H ==
  <<"C", "h", "a", "n", "g", "e", " ", "2", "4", "H">>
T_Change_7D ==
  <<"C", "h", "a", "n", "g", "e", " ", "7", "D">>
T_Market_Cap_ ==
  <<"M", "a", "r", "k", "e", "t", " ", "C", "a", "p", " ">>
T_Balance ==
  <<"B", "a", "l", "a", "n", "c", "e">>
T_Estimated_Value ==
  <<"E", "s", "t", "i", "m", "a", "t", "e", "d", " ", "V", "a", "l", "u", "e">>
USD ==
  <<"U", "S", "D">>
BTC ==
  <<"B", "T", "C">>

(***************************************************************************)
(* Ordering of strings.                                                    *)
(***************************************************************************)
\* the characters the model compares, in code unit order
CodeTable ==
  <<"-", ".", "0", "1", "2", "3", "4", "5", "6", "7", "8", "9",
    "A", "B", "C", "D", "E", "F", "G", "H", "I", "J", "K", "L", "M",
    "N", "O", "P", "Q", "R", "S", "T", "U", "V", "W", "X", "Y", "Z", "_",
    "a", "b", "c", "d", "e", "f", "g", "h", "i", "j", "k", "l", "m",
    "n", "o", "p", "q", "r", "s", "t", "u", "v", "w", "x", "y", "z">>
CodeOf == [c \in {CodeTable[i] : i \in 1..Len(CodeTable)} |->
             CHOOSE i \in 1..Len(CodeTable) : CodeTable[i] = c]
CharCode(c) == CodeOf[c]

\* -1, 0 or 1: a before, equal to, or after b, code unit by code unit
RECURSIVE CodeUnitCompare(_, _)
CodeUnitCompare(a, b) ==
  IF a = <<>> /\ b = <<>> THEN 0
  ELSE IF a = <<>> THEN -1
  ELSE IF b = <<>> THEN 1
  ELSE IF CharCode(a[1]) < CharCode(b[1]) THEN -1
  ELSE IF CharCode(a[1]) > CharCode(b[1]) THEN 1
  ELSE CodeUnitCompare(Tail(a), Tail(b))

\* String.prototype.localeCompare on letters: letters first compare without
\* case; strings equal without case put the lowercase letter first
localeCompare(a, b) ==
  LET primary == CodeUnitCompare(toLowerCase(a), toLowerCase(b))
  IN  IF primary # 0 THEN primary ELSE 0 - CodeUnitCompare(a, b)

\* Array.prototype.sort() without a comparator, as columns.sort() calls it:
\* the elements ordered by their ToString, code unit by code unit
RECURSIVE DefaultSortInsert(_, _)
DefaultSortInsert(sortedSeq, x) ==
  IF sortedSeq = <<>> THEN <<x>>
  ELSE IF CodeUnitCompare(JSToString(x), JSToString(sortedSeq[1])) < 0
       THEN <<x>> \o sortedSeq
       ELSE <<sortedSeq[1]>> \o DefaultSortInsert(Tail(sortedSeq), x)
RECURSIVE DefaultSort(_)
DefaultSort(a) ==
  IF a = <<>> THEN <<>>
  ELSE DefaultSortInsert(DefaultSort(SubSeq(a, 1, Len(a) - 1)), a[Len(a)])

(***************************************************************************)
(* The sort stage: the comparator of index.js and the engine's sort.       *)
(***************************************************************************)
\* record[key]: undefined when the record has no such property
Get(record, key) == IF key \in DOMAIN record THEN record[key] ELSE Undefined

\* keysMap[rank]
compareKeyOf(keysMap0, rank0) ==
  IF rank0.t = "number" /\ rank0.n \in DOMAIN keysMap0
  THEN Str(keysMap0[rank0.n])
  ELSE Undefined

\* the comparator with the operands of its subtraction exchanged
comparatorAscending(recordA, recordB, cfg) ==
  LET compareKey == compareKeyOf(cfg.keysMap, cfg.rank)
  IN  IF cfg.rank = Num(0) \/ ~Truthy(compareKey) THEN Num(-1)
      ELSE IF cfg.rank = Num(1)
           THEN Num(localeCompare(Get(recordA, compareKey.s).s,
                                  Get(recordB, compareKey.s).s))
      ELSE Sub(Get(recordA, compareKey.s), Get(recordB, compareKey.s))
\* the comparator handed to sort; cfg is [rank, keysMap]
comparator(recordA, recordB, cfg) ==
  LET compareKey == compareKeyOf(cfg.keysMap, cfg.rank)
  IN  IF cfg.rank = Num(0) \/ ~Truthy(compareKey) THEN Num(-1)
      ELSE IF cfg.rank = Num(1)
           THEN Num(localeCompare(Get(recordA, compareKey.s).s,
                                  Get(recordB, compareKey.s).s))
      ELSE Sub(Get(recordB, compareKey.s), Get(recordA, compareKey.s))

\* SortCompare of the language: the comparator's result as a number, NaN as +0
SortCompare(x, y, cfg) ==
  LET v == ToNumber(comparator(x, y, cfg))
  IN  IF v = NaN THEN 0 ELSE v.n

\* V8 before 7.0 (Node <= 10), arrays of at most 10 elements: insertion sort
RECURSIVE LegacyShift(_, _, _, _)
LegacyShift(a, element, j, cfg) ==
  IF j >= 1 /\ SortCompare(a[j], element, cfg) > 0
  THEN LegacyShift([a EXCEPT ![j + 1] = a[j]], element, j - 1, cfg)
  ELSE [a EXCEPT ![j + 1] = element]
RECURSIVE LegacyInsertionSort(_, _, _)
LegacyInsertionSort(a, i, cfg) ==
  IF i > Len(a) THEN a
  ELSE LegacyInsertionSort(LegacyShift(a, a[i], i - 1, cfg), i + 1, cfg)

\* V8 from 7.0 (Node >= 11), arrays shorter than 64: one run is counted
\* (a strictly descending one is reversed), the rest is inserted by binary
\* search
RECURSIVE RunLength(_, _, _, _)
RunLength(a, idx, isDescending, cfg) ==
  IF idx > Len(a) THEN idx - 1
  ELSE LET order == SortCompare(a[idx], a[idx - 1], cfg)
       IN  IF (isDescending /\ order >= 0) \/ (~isDescending /\ order < 0)
           THEN idx - 1
           ELSE RunLength(a, idx + 1, isDescending, cfg)
ReverseRange(a, n) ==
  [i \in 1..Len(a) |-> IF i <= n THEN a[n + 1 - i] ELSE a[i]]
RECURSIVE BinarySearch(_, _, _, _, _)
BinarySearch(a, pivot, left, right, cfg) ==
  IF left >= right THEN left
  ELSE LET mid == left + ((right - left) \div 2)
       IN  IF SortCompare(pivot, a[mid], cfg) < 0
           THEN BinarySearch(a, pivot, left, mid, cfg)
           ELSE BinarySearch(a, pivot, mid + 1, right, cfg)
RECURSIVE BinaryInsertionSort(_, _, _)
BinaryInsertionSort(a, start, cfg) ==
  IF start > Len(a) THEN a
  ELSE LET pivot == a[start]
           left  == BinarySearch(a, pivot, 1, start, cfg)
           moved == [i \in 1..Len(a) |->
                       IF i < left \/ i > start THEN a[i]
                       ELSE IF i = left THEN pivot
                       ELSE a[i - 1]]
       IN  BinaryInsertionSort(moved, start + 1, cfg)
TimSort(a, cfg) ==
  IF Len(a) < 2 THEN a
  ELSE LET isDescending == SortCompare(a[2], a[1], cfg) < 0
           run  == RunLength(a, 3, isDescending, cfg)
           made == IF isDescending THEN ReverseRange(a, run) ELSE a
       IN  BinaryInsertionSort(made, run + 1, cfg)

\* what Array.prototype.sort(comparator) can return on the engines the
\* program runs on; with a comparator that is not a consistent ordering the
\* language leaves the order to the engine.  Both sorts are the engines'
\* own for the arrays drawn here (at most 10 elements; the older engine
\* sorts longer arrays by quicksort)
SortOutcomes(a, cfg) ==
  {LegacyInsertionSort(a, 2, cfg), TimSort(a, cfg)}

(***************************************************************************)
(* The stages of the response callback.                                    *)
(***************************************************************************)
RECURSIVE filterRecords(_, _)
\* the filter callback with the symbols compared as they are written
filterCallbackExact(record, cfg) ==
  IF Truthy(cfg.portfolio)
  THEN \E keyword \in DOMAIN cfg.portfolioCoins : Get(record, K_symbol).s = keyword
  ELSE IF Len(cfg.find) > 0
  THEN \E i \in 1..Len(cfg.find) : Get(record, K_symbol).s = cfg.find[i]
  ELSE TRUE
\* the filter callback (index.js 122-129); cfg is [portfolio, portfolioCoins, find]
filterCallback(record, cfg) ==
  IF Truthy(cfg.portfolio)
  THEN \E keyword \in DOMAIN cfg.portfolioCoins :
         toLowerCase(Get(record, K_symbol).s) = toLowerCase(keyword)
  ELSE IF Len(cfg.find) > 0
  THEN \E i \in 1..Len(cfg.find) :
         toLowerCase(Get(record, K_symbol).s) = toLowerCase(cfg.find[i])
  ELSE TRUE
filterRecords(data, cfg) ==
  IF data = <<>> THEN <<>>
  ELSE (IF filterCallback(data[1], cfg) THEN <<data[1]>> ELSE <<>>)
         \o filterRecords(Tail(data), cfg)

\* +x without the guard
alwaysNumeric(v) == ToNumber(v)
\* x && +x
numericOrFalsy(v) == And(v, ToNumber(v))

\* the properties of the object literal of the normalization callback
LiteralKeys ==
  {K_name, K_symbol, K_rank, K_available_supply, K_total_supply, K_max_supply,
   K_percent_change_1h, K_percent_change_24h, K_percent_change_7d, K_last_updated}
CopiedKeys == {K_name, K_symbol, K_last_updated}

\* the normalization callback (index.js 130-152);
\* cfg is [priceKey, volume24hKey, marketCapKey, portfolio, portfolioCoins]
editedRecordOf(record, cfg) ==
  LET literal == [k \in LiteralKeys |->
                    IF k \in CopiedKeys THEN Get(record, k)
                    ELSE numericOrFalsy(Get(record, k))]
      price   == (cfg.priceKey :> numericOrFalsy(Get(record, cfg.priceKey)))
      volume  == (cfg.volume24hKey :> numericOrFalsy(Get(record, cfg.volume24hKey)))
      cap     == (cfg.marketCapKey :> numericOrFalsy(Get(record, cfg.marketCapKey)))
      holding == Get(cfg.portfolioCoins, toLowerCase(Get(record, K_symbol).s))
      portfolioGross == Mul(holding, ParseFloat(Get(record, cfg.priceKey)))
      held    == IF Truthy(cfg.portfolio)
                 THEN (K_portfolio_estimated_value :> portfolioGross)
                        @@ (K_portfolio_balance :> holding)
                 ELSE <<>>
  IN  held @@ cap @@ volume @@ price @@ literal

\* element index of a JavaScript array held as a sequence
At(array, index) ==
  IF index.t = "number" /\ index.n >= 0 /\ index.n < Len(array)
  THEN array[index.n + 1]
  ELSE Undefined

\* the row callback (index.js 163-185) without its sum;
\* cfg is [priceKey, marketCapKey, portfolio, sortedColumns]
defaultValuesOf(record, cfg) ==
  LET marketCap == Get(record, cfg.marketCapKey)
      base == << Get(record, K_rank),
                 Get(record, K_symbol),
                 Get(record, cfg.priceKey),
                 getColoredChangeValueText(Get(record, K_percent_change_1h)),
                 getColoredChangeValueText(Get(record, K_percent_change_24h)),
                 getColoredChangeValueText(Get(record, K_percent_change_7d)),
                 displayedMarketCap(marketCap) >>
  IN  IF Truthy(cfg.portfolio)
      THEN base \o << Get(record, K_portfolio_balance),
                      Str(ToFixed2(Get(record, K_portfolio_estimated_value))) >>
      ELSE base
valuesOf(record, cfg) ==
  [i \in 1..Len(cfg.sortedColumns) |->
     At(defaultValuesOf(record, cfg), cfg.sortedColumns[i])]

\* portfolioSum = portfolioSum + parseFloat(portfolioGross), row after row
RECURSIVE sumOf(_, _)
sumOf(records, acc) ==
  IF records = <<>> THEN acc
  ELSE sumOf(Tail(records),
             Add(acc, ParseFloat(Str(ToFixed2(
                        Get(records[1], K_portfolio_estimated_value))))))

(***************************************************************************)
(* The option handling of index.js 32-55 and 101-117.                      *)
(***************************************************************************)
\* the market cap currency without regard to the convert currency
marketcapConvertAlwaysUSD(convert0) == USD
marketcapConvertOf(convert0) == IF convert0 = BTC THEN USD ELSE convert0

topOf(find0, portfolio0, programTop) ==
  IF Len(find0) > 0 \/ Truthy(portfolio0) THEN Num(FilterLimit) ELSE programTop

defaultHeaderOf(convert0, marketcapConvert0, portfolio0) ==
  LET titles == <<T_Rank, T_Coin, T_Price_ \o convert0, T_Change_1H,
                  T_Change_24H, T_Change_7D, T_Market_Cap_ \o marketcapConvert0>>
      base   == [i \in 1..Len(titles) |-> Str(Yellow(titles[i]))]
  IN  IF Truthy(portfolio0)
      THEN base \o <<Str(Yellow(T_Balance)), Str(Yellow(T_Estimated_Value))>>
      ELSE base

\* the filter callback of columns (index.js 49-52)
columnKept(index, defaultHeader0) ==
  ~IsNaN(index) /\ index.n < Len(defaultHeader0)

columnsOf(column0, defaultHeader0) ==
  IF Len(column0) > 0
  THEN SelectSeq([i \in 1..Len(column0) |-> ToNumber(Str(column0[i]))],
                 LAMBDA index : columnKept(index, defaultHeader0))
  ELSE [i \in 1..Len(defaultHeader0) |-> Num(i - 1)]

sortedColumnsOf(column0, defaultHeader0) ==
  DefaultSort(columnsOf(column0, defaultHeader0))

headerOf(sortedColumns0, defaultHeader0) ==
  [i \in 1..Len(sortedColumns0) |-> At(defaultHeader0, sortedColumns0[i])]

priceKeyOf(convert0) == toLowerCase(T_price_ \o convert0)
marketCapKeyOf(marketcapConvert0) == toLowerCase(T_market_cap_ \o marketcapConvert0)
volume24hKeyOf(marketcapConvert0) == toLowerCase(T_24h_volume_ \o marketcapConvert0)

keysMapOf(priceKey0, marketCapKey0, portfolio0, defaultHeader0) ==
  LET base == (0 :> K_rank) @@ (1 :> K_symbol) @@ (2 :> priceKey0)
                @@ (3 :> K_percent_change_1h) @@ (4 :> K_percent_change_24h)
                @@ (5 :> K_percent_change_7d) @@ (6 :> marketCapKey0)
  IN  IF Truthy(portfolio0)
      THEN (Len(defaultHeader0) :> K_portfolio_estimated_value)
             @@ (Len(defaultHeader0) - 1 :> K_portfolio_balance) @@ base
      ELSE base

(***************************************************************************)
(* The state of one run.                                                   *)
(***************************************************************************)
VARIABLES
  argv,             \* the options on the command line: undefined or their text
  portfolioFile,    \* what reading and parsing the portfolio file gives
  remote,           \* what the remote source answers: failure or its coins
  pc,               \* the position of the run
  console,          \* the lines written so far
  program,          \* the options object commander leaves
  convert, marketcapConvert, find, portfolio, top, column, rank,
  defaultHeader, sortedColumns, header,
  portfolioCoins, portfolioSum,
  sourceUrl, priceKey, marketCapKey, volume24hKey, keysMap,
  requested,        \* axios.get(sourceUrl) was called
  data,             \* response.data
  filtered, edited, sorted,   \* the array after filter, map and sort
  table             \* the rows pushed to the table

envVars     == <<argv, portfolioFile, remote>>
optionVars  == <<convert, marketcapConvert, find, portfolio, top, column, rank>>
tableVars   == <<defaultHeader, sortedColumns, header>>
requestVars == <<sourceUrl, priceKey, marketCapKey, volume24hKey, keysMap, requested>>
resultVars  == <<data, filtered, edited, sorted, table>>
vars == <<envVars, pc, console, program, optionVars, tableVars, portfolioCoins,
          portfolioSum, requestVars, resultVars>>

(***************************************************************************)
(* The remote source: the record it returns for a coin.  A coin is         *)
(* [symbol, f]: f gives each field's value as the source holds it, and     *)
(* undefined for a field the source leaves out; the three currency fields  *)
(* are held once for the requested currency (under their prefix) and once  *)
(* for USD.  The answer carries the fields of the requested currency and,  *)
(* when that is not USD, the USD fields too.                               *)
(***************************************************************************)
CommonFields ==
  {K_rank, K_available_supply, K_total_supply, K_max_supply,
   K_percent_change_1h, K_percent_change_24h, K_percent_change_7d}
CurrencyFields == {T_price_, T_market_cap_, T_24h_volume_}
UsdKeys == {toLowerCase(p \o USD) : p \in CurrencyFields}
CoinFields == CommonFields \cup CurrencyFields \cup UsdKeys

apiRecord(coin, convert0) ==
  LET common == [k \in {k \in CommonFields : coin.f[k] # Undefined} |-> coin.f[k]]
      held(p) == IF coin.f[p] # Undefined
                 THEN (toLowerCase(p \o convert0) :> coin.f[p]) ELSE <<>>
      conv   == held(T_price_) @@ held(T_market_cap_) @@ held(T_24h_volume_)
      usd    == IF convert0 = USD THEN <<>>
                ELSE [k \in {k \in UsdKeys : coin.f[k] # Undefined} |-> coin.f[k]]
  IN  (K_name :> Str(coin.symbol)) @@ (K_symbol :> Str(coin.symbol))
        @@ (K_last_updated :> Str(<<"1">>)) @@ common @@ conv @@ usd

responseData(coins, convert0) ==
  [i \in 1..Len(coins) |-> apiRecord(coins[i], convert0)]

(***************************************************************************)
(* The inputs of a run.                                                    *)
(***************************************************************************)
NoArgs ==
  [convert |-> Undefined, find |-> Undefined, top |-> Undefined,
   portfolio |-> Undefined, specific |-> Undefined, rank |-> Undefined]

\* sequences over S of length at most n
RECURSIVE SeqsUpTo(_, _)
SeqsUpTo(S, n) ==
  IF n = 0 THEN {<<>>}
  ELSE LET shorter == SeqsUpTo(S, n - 1)
       IN  shorter \cup {Append(q, x) : q \in {q \in shorter : Len(q) = n - 1}, x \in S}

\* a coin whose every field holds v
Uniform(symbol, v) == [symbol |-> symbol, f |-> [k \in CoinFields |-> v]]
\* a coin whose every field holds base, but for one that holds v
OneOff(symbol, base, field, v) ==
  [symbol |-> symbol, f |-> [k \in CoinFields |-> IF k = field THEN v ELSE base]]

S_BTC == <<"B", "T", "C">>
S_ETH == <<"E", "T", "H">>
S_XRP == <<"X", "R", "P">>
S_LTC == <<"L", "T", "C">>

\* a portfolio file that parses, and one that does not
PortfolioOk ==
  [ok |-> TRUE,
   coins |-> (toLowerCase(S_BTC) :> Num(2)) @@ (toLowerCase(S_ETH) :> Num(1))
               @@ (toLowerCase(S_XRP) :> Num(3)) @@ (toLowerCase(S_LTC) :> Num(4))]
PortfolioBad == [ok |-> FALSE, coins |-> <<>>]

RemoteFails == [ok |-> FALSE, coins |-> <<>>]
Answer(coins) == [ok |-> TRUE, coins |-> coins]

TwoCoins == <<Uniform(S_BTC, Str(<<"5">>)), Uniform(S_ETH, Str(<<"5", "0">>))>>

\* texts given to --convert, --top and --rank
ConvertTexts == {<<"b", "t", "c">>, BTC, <<"e", "u", "r">>, <<"E", "u", "r">>,
                 <<"x", "y", "z">>}
NumberTexts == {<<"5">>, <<"2">>, <<"-", "5">>, <<"a", "b", "c">>, <<>>}
OptionalText(S) == {Undefined} \cup {Str(x) : x \in S}

\* runs that differ in --convert, --top and --rank
ValidationRuns ==
  {[argv |-> [NoArgs EXCEPT !.convert = c, !.top = t, !.rank = r],
    portfolioFile |-> PortfolioBad, remote |-> rem] :
     c \in OptionalText(ConvertTexts), t \in OptionalText(NumberTexts),
     r \in OptionalText(NumberTexts), rem \in {RemoteFails, Answer(TwoCoins)}}

\* runs that differ in --find, --portfolio and the symbols answered
FindPool == {<<"b", "t", "c">>, S_ETH, <<"l", "t", "c">>}
AnsweredSymbols == {S_BTC, <<"e", "t", "h">>, S_XRP}
FilterRuns ==
  {[argv |-> [NoArgs EXCEPT !.find = Str(Join(l))],
    portfolioFile |-> PortfolioBad,
    remote |-> Answer([i \in 1..Len(q) |-> Uniform(q[i], Str(<<"5">>))])] :
     l \in SeqsUpTo(FindPool, MaxFind), q \in SeqsUpTo(AnsweredSymbols, MaxRecords)}
  \cup
  {[argv |-> [NoArgs EXCEPT !.find = f, !.portfolio = True],
    portfolioFile |-> PortfolioOk,
    remote |-> Answer(<<Uniform(S_BTC, Str(<<"5">>)), Uniform(S_XRP, Str(<<"5">>)),
                        Uniform(<<"D", "O", "G", "E">>, Str(<<"5">>))>>)] :
     f \in OptionalText({<<"x", "r", "p">>, <<"d", "o", "g", "e">>})}

\* runs that differ in what one field of the one coin answered holds
RawValues ==
  {Undefined, Null, Num(0), Str(<<>>), Str(<<"0">>), Str(<<"5">>),
   Str(<<"-", "3">>), Str(<<"a", "b", "c">>)}
NormalizeRuns ==
  {[argv |-> [NoArgs EXCEPT !.convert = c],
    portfolioFile |-> PortfolioBad,
    remote |-> Answer(<<OneOff(S_BTC, base, field, v)>>)] :
     c \in OptionalText({<<"b", "t", "c">>, <<"e", "u", "r">>}),
     base \in {Str(<<"5">>)}, field \in CoinFields, v \in RawValues}
  \cup
  {[argv |-> NoArgs, portfolioFile |-> PortfolioBad,
    remote |-> Answer(<<Uniform(S_BTC, v)>>)] : v \in RawValues}

\* runs that differ in --rank, --portfolio and the coins answered
RankTexts ==
  {<<"0">>, <<"1">>, <<"2">>, <<"3">>, <<"4">>, <<"5">>, <<"6">>, <<"7">>,
   <<"8">>, <<"9">>, <<"a", "b", "c">>}
PortfolioRankTexts == {<<"0">>, <<"2">>, <<"7">>, <<"8">>, <<"9">>}
SortPool ==
  {OneOff(S_BTC, Str(<<"5">>), T_price_, Str(<<"7">>)),
   Uniform(S_ETH, Str(<<"5", "0", "0">>)),
   Uniform(S_XRP, Str(<<"5", "0">>)),
   Uniform(S_LTC, Undefined)}
SortRuns ==
  {[argv |-> [NoArgs EXCEPT !.rank = Str(r)],
    portfolioFile |-> PortfolioBad, remote |-> Answer(q)] :
     r \in RankTexts, q \in SeqsUpTo(SortPool, MaxRecords)}
  \cup
  {[argv |-> [NoArgs EXCEPT !.rank = Str(r), !.portfolio = True],
    portfolioFile |-> PortfolioOk, remote |-> Answer(q)] :
     r \in PortfolioRankTexts, q \in SeqsUpTo(SortPool, MaxRecords)}

\* runs that differ in --specific and --portfolio
SpecificPool ==
  {<<"0">>, <<"2">>, <<"7">>, <<"9">>, <<"-", "1">>, <<"a", "b", "c">>, <<>>}
ColumnRuns ==
  {[argv |-> [NoArgs EXCEPT !.specific = sp, !.portfolio = p],
    portfolioFile |-> PortfolioOk, remote |-> Answer(TwoCoins)] :
     sp \in {Undefined} \cup {Str(Join(l)) : l \in SeqsUpTo(SpecificPool, MaxSpecific)},
     p \in {Undefined, True}}
  \cup
  {[argv |-> [NoArgs EXCEPT !.portfolio = p],
    portfolioFile |-> PortfolioBad, remote |-> Answer(TwoCoins)] :
     p \in {True, Str(<<"p">>)}}

Runs == ValidationRuns \cup FilterRuns \cup NormalizeRuns \cup SortRuns \cup ColumnRuns

(***************************************************************************)
(* The run.                                                                *)
(***************************************************************************)
Init ==
  /\ \E run \in Runs :
       /\ argv = run.argv
       /\ portfolioFile = run.portfolioFile
       /\ remote = run.remote
  /\ pc = "parse"
  /\ console = <<>>
  /\ program = NoArgs
  /\ convert = <<>> /\ marketcapConvert = <<>> /\ find = <<>>
  /\ portfolio = Undefined /\ top = Undefined /\ column = <<>> /\ rank = Undefined
  /\ defaultHeader = <<>> /\ sortedColumns = <<>> /\ header = <<>>
  /\ portfolioCoins = <<>> /\ portfolioSum = Num(0)
  /\ sourceUrl = Undefined /\ priceKey = <<>> /\ marketCapKey = <<>>
  /\ volume24hKey = <<>> /\ keysMap = <<>> /\ requested = FALSE
  /\ data = <<>> /\ filtered = <<>> /\ edited = <<>> /\ sorted = <<>> /\ table = <<>>

\* index.js 19-27: commander hands each given option's text to its function
\* and keeps the default of an option that is not given; a validator that
\* calls process.exit() ends the run there
ParseArgv ==
  /\ pc = "parse"
  /\ LET c == IF argv.convert = Undefined THEN [exit |-> FALSE, value |-> USD]
              ELSE validateConvertCurrency(argv.convert.s)
         t == IF argv.top = Undefined THEN [exit |-> FALSE, value |-> Num(DefaultTop)]
              ELSE validateNumber(argv.top.s)
         r == IF argv.rank = Undefined THEN [exit |-> FALSE, value |-> Num(DefaultRank)]
              ELSE validateNumber(argv.rank.s)
     IN  IF c.exit
         THEN /\ console' = Append(console, "We cannot convert to your currency.")
              /\ pc' = "exited"
              /\ UNCHANGED program
         ELSE IF t.exit \/ r.exit
         THEN /\ console' = Append(console, "Please input a valid parameter.")
              /\ pc' = "exited"
              /\ UNCHANGED program
         ELSE /\ program' =
                   [convert   |-> c.value,
                    find      |-> IF argv.find = Undefined THEN <<>> ELSE list(argv.find.s),
                    top       |-> t.value,
                    portfolio |-> argv.portfolio,
                    specific  |-> IF argv.specific = Undefined THEN <<>>
                                  ELSE list(argv.specific.s),
                    rank      |-> r.value]
              /\ pc' = "options"
              /\ UNCHANGED console
  /\ UNCHANGED <<envVars, optionVars, tableVars, portfolioCoins, portfolioSum,
                 requestVars, resultVars>>

\* index.js 29-38
HandleOptions ==
  /\ pc = "options"
  /\ console' = Append(console, "")
  /\ convert' = toUpperCase(program.convert)
  /\ marketcapConvert' = marketcapConvertOf(toUpperCase(program.convert))
  /\ find' = program.find
  /\ portfolio' = program.portfolio
  /\ top' = topOf(program.find, program.portfolio, program.top)
  /\ column' = program.specific
  /\ rank' = program.rank
  /\ pc' = "table"
  /\ UNCHANGED <<envVars, program, tableVars, portfolioCoins, portfolioSum,
                 requestVars, resultVars>>

\* index.js 41-75
HandleTable ==
  /\ pc = "table"
  /\ LET dh == defaultHeaderOf(convert, marketcapConvert, portfolio)
         sc == sortedColumnsOf(column, dh)
     IN  /\ defaultHeader' = dh
         /\ sortedColumns' = sc
         /\ header' = headerOf(sc, dh)
  /\ pc' = "portfolio"
  /\ UNCHANGED <<envVars, console, program, optionVars, portfolioCoins,
                 portfolioSum, requestVars, resultVars>>

\* index.js 78-88
ReadPortfolio ==
  /\ pc = "portfolio"
  /\ IF Truthy(portfolio) /\ ~portfolioFile.ok
     THEN /\ console' = Append(console, "Please include a valid json file.")
          /\ pc' = "exited"
          /\ UNCHANGED portfolioCoins
     ELSE /\ portfolioCoins' = IF Truthy(portfolio) THEN portfolioFile.coins ELSE <<>>
          /\ pc' = "request"
          /\ UNCHANGED console
  /\ UNCHANGED <<envVars, program, optionVars, tableVars, portfolioSum,
                 requestVars, resultVars>>

\* index.js 98-118
CallApi ==
  /\ pc = "request"
  /\ sourceUrl' = [limit |-> top, convert |-> convert]
  /\ priceKey' = priceKeyOf(convert)
  /\ marketCapKey' = marketCapKeyOf(marketcapConvert)
  /\ volume24hKey' = volume24hKeyOf(marketcapConvert)
  /\ keysMap' = keysMapOf(priceKeyOf(convert), marketCapKeyOf(marketcapConvert),
                          portfolio, defaultHeader)
  /\ requested' = TRUE
  /\ pc' = "pending"
  /\ UNCHANGED <<envVars, console, program, optionVars, tableVars, portfolioCoins,
                 portfolioSum, resultVars>>

\* index.js 119-194: the callback of a fulfilled request
ResponseThen ==
  /\ pc = "pending"
  /\ remote.ok
  /\ LET responseData0 == responseData(remote.coins, convert)
         f == filterRecords(responseData0,
                [portfolio |-> portfolio, portfolioCoins |-> portfolioCoins,
                 find |-> find])
         e == [i \in 1..Len(f) |->
                 editedRecordOf(f[i],
                   [priceKey |-> priceKey, volume24hKey |-> volume24hKey,
                    marketCapKey |-> marketCapKey, portfolio |-> portfolio,
                    portfolioCoins |-> portfolioCoins])]
     IN  \E s0 \in SortOutcomes(e, [rank |-> rank, keysMap |-> keysMap]) :
           LET rows == [i \in 1..Len(s0) |->
                          valuesOf(s0[i],
                            [priceKey |-> priceKey, marketCapKey |-> marketCapKey,
                             portfolio |-> portfolio, sortedColumns |-> sortedColumns])]
               total == IF Truthy(portfolio) THEN sumOf(s0, portfolioSum)
                        ELSE portfolioSum
           IN  /\ data' = responseData0
               /\ filtered' = f
               /\ edited' = e
               /\ sorted' = s0
               /\ table' = rows
               /\ portfolioSum' = total
               /\ console' =
                    IF Len(rows) = 0
                    THEN Append(console,
                           "We are not able to find coins matching your keywords")
                    ELSE console
                           \o <<"Data source from coinmarketcap.com", "table">>
                           \o (IF Truthy(portfolio) THEN <<"Estimated portfolio">>
                               ELSE <<>>)
  /\ pc' = "done"
  /\ UNCHANGED <<envVars, program, optionVars, tableVars, portfolioCoins, requestVars>>

\* index.js 195-198: the callback of a rejected request
ResponseCatch ==
  /\ pc = "pending"
  /\ ~remote.ok
  /\ console' = Append(console, "Coinmon is not working now. Please try again later.")
  /\ pc' = "failed"
  /\ UNCHANGED <<envVars, program, optionVars, tableVars, portfolioCoins,
                 portfolioSum, requestVars, resultVars>>

Next ==
  \/ ParseArgv
  \/ HandleOptions
  \/ HandleTable
  \/ ReadPortfolio
  \/ CallApi
  \/ ResponseThen
  \/ ResponseCatch

Spec == Init /\ [][Next]_vars

(***************************************************************************)
(* Properties.                                                             *)
(***************************************************************************)
Done == pc = "done"
Count(seq, x) == Cardinality({i \in 1..Len(seq) : seq[i] = x})
IsPermutation(a, b) ==
  /\ Len(a) = Len(b)
  /\ \A i \in 1..Len(a) : Count(a, a[i]) = Count(b, a[i])

\* the text given to --convert, or its default
SelectedConvert == IF argv.convert = Undefined THEN USD ELSE argv.convert.s

\* the field a rank from 2 to 6 names
FieldOfRank(r) ==
  CASE r = 2 -> priceKey
    [] r = 3 -> K_percent_change_1h
    [] r = 4 -> K_percent_change_24h
    [] r = 5 -> K_percent_change_7d
    [] r = 6 -> marketCapKey

\* the numeric-bearing properties of a record
NumericKeys == CommonFields \cup {priceKey, volume24hKey, marketCapKey}
\* the columns that render NA, with the property each shows
NAColumns == {3, 4, 5, 6}

InFindMode == ~Truthy(portfolio) /\ Len(find) > 0
CaseInsensitiveEqual(a, b) == toUpperCase(a) = toUpperCase(b)
MatchesFind(record) ==
  \E i \in 1..Len(find) : CaseInsensitiveEqual(record[K_symbol].s, find[i])

\* C1: in find mode the filter stage keeps exactly the records whose symbol
\* equals some find-list entry without regard to case: every matching
\* record answered is kept as often as it was answered, and no other is kept
C1_FindKeepsExactlyMatches ==
  (Done /\ InFindMode) =>
    /\ \A i \in 1..Len(data) :
         Count(filtered, data[i]) =
           IF MatchesFind(data[i]) THEN Count(data, data[i]) ELSE 0
    /\ \A j \in 1..Len(filtered) : \E i \in 1..Len(data) : data[i] = filtered[j]
C1_Witness ==
  /\ Done /\ InFindMode
  /\ Len(filtered) > 0 /\ Len(filtered) < Len(data)
  /\ \E j \in 1..Len(filtered) :
       \A i \in 1..Len(find) : filtered[j][K_symbol].s # find[i]

FalsyRaw == {Num(0), Null, Str(<<>>), Undefined}
RendersNA(normalized, row) ==
  \A c \in NAColumns :
    Get(normalized, FieldOfRank(c)) \in FalsyRaw =>
      \A j \in 1..Len(sortedColumns) :
        sortedColumns[j] = Num(c) => row[j] = Str(T_NA)

C3_NoKeyKeepsOrder ==
  (Done /\ (rank = Num(0) \/ compareKeyOf(keysMap, rank) = Undefined)) =>
    sorted = edited

RankIn2To6 == rank.t = "number" /\ rank.n \in 2..6
\* C4: when rank is from 2 to 6 and every record carries a number in the
\* mapped field, the sort stage gives a permutation of its input in which
\* the mapped field never increases from one row to the next
C4_NumericRankSortsDescending ==
  (Done /\ RankIn2To6
     /\ \A i \in 1..Len(edited) : Get(edited[i], FieldOfRank(rank.n)).t = "number") =>
    /\ IsPermutation(sorted, edited)
    /\ \A i \in 1..(Len(sorted) - 1) :
         sorted[i][FieldOfRank(rank.n)].n >= sorted[i + 1][FieldOfRank(rank.n)].n
C4_Witness ==
  /\ Done /\ rank = Num(6) /\ Len(edited) = 3
  /\ [i \in 1..3 |-> edited[i][marketCapKey]] = <<Num(5), Num(500), Num(50)>>
  /\ [i \in 1..3 |-> sorted[i][marketCapKey]] = <<Num(500), Num(50), Num(5)>>

\* C5: when sorting by a numeric rank (not 0, not 1, mapped to a key), every
\* record that has the mapped field precedes every record that lacks it, and
\* the records that have it are in descending order among themselves
C5_MissingFieldSortsLast ==
  (Done /\ rank # Num(0) /\ rank # Num(1)
     /\ compareKeyOf(keysMap, rank) # Undefined) =>
    LET key == compareKeyOf(keysMap, rank).s
    IN  \A i, j \in 1..Len(sorted) :
          i < j =>
            /\ ~(Get(sorted[i], key) = Undefined /\ Get(sorted[j], key) # Undefined)
            /\ (Get(sorted[i], key).t = "number" /\ Get(sorted[j], key).t = "number")
                 => Get(sorted[i], key).n >= Get(sorted[j], key).n

TableBuilt == pc \in {"portfolio", "request", "pending", "done", "failed"}
\* C6: every index kept for projection lies in [0, defaultHeader.length), so
\* no cell of the displayed header is undefined
C6_KeptColumnsInRange ==
  TableBuilt =>
    /\ \A i \in 1..Len(sortedColumns) :
         sortedColumns[i].n >= 0 /\ sortedColumns[i].n < Len(defaultHeader)
    /\ \A i \in 1..Len(header) : header[i] # Undefined

ValidColumnText(e) ==
  LET index == ToNumber(Str(e))
  IN  index.t = "number" /\ index.n >= 0 /\ index.n < Len(defaultHeader)
\* C7: when --specific is not given, or every entry given is invalid, the
\* header and every row hold all default columns in natural order
C7_EmptySpecProjectsAll ==
  (TableBuilt /\ \A i \in 1..Len(column) : ~ValidColumnText(column[i])) =>
    /\ header = defaultHeader
    /\ Done => \A i \in 1..Len(table) : Len(table[i]) = Len(defaultHeader)

ValidNumberText(a) ==
  a = Undefined \/ (ToNumber(a).t = "number" /\ ToNumber(a).n >= 0)
\* C8: no run given a negative or non-numeric --top or --rank reaches the
\* HTTP request
C8_InvalidNumberNeverRequested ==
  requested => (ValidNumberText(argv.top) /\ ValidNumberText(argv.rank))

KeysComputed == pc \in {"pending", "done", "failed"}
\* C9 (as amended): the price key carries the lowercased selected convert
\* currency; for every accepted currency but BTC so do the market cap key,
\* the 24h volume key and the Market Cap header; for BTC those three carry
\* USD instead
C9_KeysFollowConvertButBTC ==
  KeysComputed =>
    LET sel  == toLowerCase(SelectedConvert)
        mcap == IF toUpperCase(SelectedConvert) = BTC THEN toLowerCase(USD) ELSE sel
    IN  /\ priceKey = T_price_ \o sel
        /\ marketCapKey = T_market_cap_ \o mcap
        /\ volume24hKey = T_24h_volume_ \o mcap
        /\ defaultHeader[7] = Str(Yellow(T_Market_Cap_ \o toUpperCase(mcap)))
C9_Witness ==
  /\ KeysComputed
  /\ SelectedConvert = <<"b", "t", "c">>
  /\ priceKey = T_price_ \o <<"b", "t", "c">>
  /\ marketCapKey = T_market_cap_ \o <<"u", "s", "d">>
\* C9 (as claimed): all three keys and the Market Cap header carry the
\* selected convert currency, BTC included
C9_KeysFollowConvert ==
  KeysComputed =>
    LET sel == toLowerCase(SelectedConvert)
    IN  /\ priceKey = T_price_ \o sel
        /\ marketCapKey = T_market_cap_ \o sel
        /\ volume24hKey = T_24h_volume_ \o sel
        /\ defaultHeader[7] = Str(Yellow(T_Market_Cap_ \o toUpperCase(sel)))

DescendingBy(key) ==
  \A i \in 1..(Len(sorted) - 1) :
    (Get(sorted[i], key).t = "number" /\ Get(sorted[i + 1], key).t = "number")
      => Get(sorted[i], key).n >= Get(sorted[i + 1], key).n
\* C10: in portfolio mode the key map holds portfolio_balance at index 7 and
\* portfolio_estimated_value at index 8, so rank 7 sorts descending by
\* balance and rank 8 descending by estimated value; outside portfolio mode
\* a rank above 6 maps to no key
C10_PortfolioKeysAt7And8 ==
  Done =>
    IF Truthy(portfolio)
    THEN /\ compareKeyOf(keysMap, Num(7)) = Str(K_portfolio_balance)
         /\ compareKeyOf(keysMap, Num(8)) = Str(K_portfolio_estimated_value)
         /\ rank = Num(7) => DescendingBy(K_portfolio_balance)
         /\ rank = Num(8) => DescendingBy(K_portfolio_estimated_value)
    ELSE \A r \in 7..9 : compareKeyOf(keysMap, Num(r)) = Undefined

=============================================================================
